---- MODULE Spec2Model ----
(***************************************************************************)
(* Model of lib/BST/BST.hpp: a sentinel-rooted binary search tree with     *)
(* in-order, pre-order and post-order bidirectional cursors.               *)
(*                                                                         *)
(* Nodes live in an arena addressed by small integers; a pointer is a node *)
(* id or Nil.  The element type T is int and Compare is std::less<int>.    *)
(* A step of the code that dereferences a null or released pointer is      *)
(* undefined behaviour: the navigation operators return UB for it, and the *)
(* actions turn UB into a nondeterministic outcome (a trap, or a run that  *)
(* goes on with an indeterminate value).                                   *)
(***************************************************************************)
EXTENDS Integers, Sequences, FiniteSets, TLC

\* ------------------------------------------------------------------ bounds
MaxNodes == 3      \* data nodes the arena can hold at once
MaxVal == 3        \* stored values are 1..MaxVal
MaxPairNodes == 4  \* data nodes two trees hold together, where two are used
MaxPairVal == 2    \* the values stored where two trees are used are 1..MaxPairVal
MaxCursorNodes == 4  \* data nodes of the trees that single cursor steps are taken on

\* --------------------------------------------------------------- constants
Nil == 0           \* nullptr
UB == Nil - 1      \* result of a step that dereferenced an invalid pointer
Hang == UB - 1     \* result of a loop that never exits

BSTs == {"a", "b"}                 \* the BST objects of the program
Active == {"a"}                    \* the objects Spec operates on
Sentinel(t) == IF t = "a" THEN 1 ELSE 2
\* arena slots (two sentinels + data nodes)
Larger(m, n) == IF m > n THEN m ELSE n
Node == 1..(Larger(MaxNodes, Larger(MaxPairNodes, MaxCursorNodes)) + 2)
Val == 1..MaxVal
PairVal == 1..MaxPairVal
Order == {"Inorder", "Preorder", "Postorder"}

VARIABLES
    heap,     \* [parent_, left_, right_, data_ : Node -> ..., live : SUBSET Node]
    root_,    \* root_[t]: the sentinel node of tree t
    size_,    \* size_[t]: the size counter of tree t
    elems,    \* ghost: elems[t][v] = insertions of v minus removed elements v
    ret       \* the last operation: its arguments, result and outcome

vars == <<heap, root_, size_, elems, ret>>

\* ---------------------------------------------------------------- Node Store
\* Node<T>() value-initialises: data_ = 0 and the three pointers are nullptr.
ZeroNode(h, n) ==
    [h EXCEPT !.parent_[n] = Nil, !.left_[n] = Nil, !.right_[n] = Nil,
              !.data_[n] = 0]

FreeNodes(h) == Node \ h.live

\* alloc_node(): a slot that is not in use (the lowest free one), zeroed.
NewNode(h) == CHOOSE n \in FreeNodes(h) : \A m \in FreeNodes(h) : n <= m

alloc_node(h) == [ZeroNode(h, NewNode(h)) EXCEPT !.live = @ \cup {NewNode(h)}]

\* delete_node(node): the slot is released; its contents are no longer
\* observable without undefined behaviour, so the model zeroes them.
delete_node(h, n) == [ZeroNode(h, n) EXCEPT !.live = @ \ {n}]

\* A pointer the code may dereference.
Valid(h, p) == p \in h.live

\* ------------------------------------------------------------ Tree Structure
RECURSIVE LeftmostFrom(_, _)
\* Leftmost(Node<T>* node): while (node->left_ != nullptr) node = node->left_;
LeftmostFrom(h, n) ==
    IF ~Valid(h, n) THEN UB
    ELSE IF h.left_[n] # Nil THEN LeftmostFrom(h, h.left_[n])
    ELSE n

RECURSIVE RightmostFrom(_, _)
\* the loop "while (it_->right_ != nullptr) it_ = it_->right_;"
RightmostFrom(h, n) ==
    IF ~Valid(h, n) THEN UB
    ELSE IF h.right_[n] # Nil THEN RightmostFrom(h, h.right_[n])
    ELSE n

\* Leftmost(): the sentinel itself on an empty tree, else the minimum.
Leftmost(h, r) ==
    IF ~Valid(h, r) THEN UB
    ELSE IF h.left_[r] = Nil THEN r
    ELSE LeftmostFrom(h, h.left_[r])

\* Rightmost(): starts at root_->left_ without a null check.
Rightmost(h, r) ==
    IF ~Valid(h, r) THEN UB ELSE RightmostFrom(h, h.left_[r])

empty(h, r) == h.left_[r] = Nil

\* ---------------------------------------------------------- Traversal Engine
RECURSIVE AddInorderLoop(_, _)
\* while (it_ == it_->parent_->right_) {
\*     it_ = it_->parent_;
\*     if (it_->parent_->parent_ == nullptr) break;
\* }
\* it_ = it_->parent_;                       (entered with it_->parent_ != nullptr)
AddInorderLoop(h, it) ==
    IF it = h.right_[h.parent_[it]]
    THEN LET p == h.parent_[it] IN
         IF h.parent_[p] = Nil THEN UB
         ELSE IF h.parent_[h.parent_[p]] = Nil THEN h.parent_[p]
         ELSE AddInorderLoop(h, p)
    ELSE h.parent_[it]

\* Mutant of AddInorder: steps to the right child itself instead of the
\* minimum of the right subtree.
AddInorder_NoDescent(h, it) ==
    IF ~Valid(h, it) THEN UB
    ELSE IF h.right_[it] # Nil THEN h.right_[it]
    ELSE IF h.parent_[it] # Nil THEN AddInorderLoop(h, it)
    ELSE it

\* Iterator::Add(Inorder)
AddInorder(h, it) ==
    IF ~Valid(h, it) THEN UB
    ELSE IF h.right_[it] # Nil THEN LeftmostFrom(h, h.right_[it])
    ELSE IF h.parent_[it] # Nil THEN AddInorderLoop(h, it)
    ELSE it

RECURSIVE AddPreorderLoop(_, _)
\* while (it_->parent_ != nullptr &&
\*        (it_ == it_->parent_->right_ || it_->parent_->right_ == nullptr))
\*     it_ = it_->parent_;
AddPreorderLoop(h, it) ==
    IF h.parent_[it] # Nil
       /\ (it = h.right_[h.parent_[it]] \/ h.right_[h.parent_[it]] = Nil)
    THEN AddPreorderLoop(h, h.parent_[it])
    ELSE it

\* Iterator::Add(Preorder)
AddPreorder(h, it) ==
    IF ~Valid(h, it) THEN UB
    ELSE IF h.left_[it] # Nil THEN h.left_[it]
    ELSE LET a == AddPreorderLoop(h, it)
             b == IF h.parent_[a] # Nil THEN h.parent_[a] ELSE a
         IN  IF h.right_[b] # Nil THEN h.right_[b] ELSE b

\* Iterator::Add(Postorder): it_->parent_ is dereferenced without a check.
AddPostorder(h, it) ==
    IF ~Valid(h, it) THEN UB
    ELSE IF h.parent_[it] = Nil THEN UB
    ELSE IF it = h.left_[h.parent_[it]]
         THEN LET p == h.parent_[it] IN
              IF h.right_[p] # Nil THEN LeftmostFrom(h, h.right_[p]) ELSE p
         ELSE h.parent_[it]

RECURSIVE SubtractInorderLoop(_, _)
\* while (it_ == it_->parent_->left_) {
\*     it_ = it_->parent_;
\*     if (it_->parent_->parent_ == nullptr) break;
\* }
\* it_ = it_->parent_;                       (entered with it_->parent_ != nullptr)
SubtractInorderLoop(h, it) ==
    IF it = h.left_[h.parent_[it]]
    THEN LET p == h.parent_[it] IN
         IF h.parent_[p] = Nil THEN UB
         ELSE IF h.parent_[h.parent_[p]] = Nil THEN h.parent_[p]
         ELSE SubtractInorderLoop(h, p)
    ELSE h.parent_[it]

\* Iterator::Subtract(Inorder)
SubtractInorder(h, it) ==
    IF ~Valid(h, it) THEN UB
    ELSE IF h.left_[it] # Nil THEN RightmostFrom(h, h.left_[it])
    ELSE IF h.parent_[it] # Nil THEN SubtractInorderLoop(h, it)
    ELSE it

\* Iterator::Subtract(Preorder)
SubtractPreorder(h, it) ==
    IF ~Valid(h, it) THEN UB
    ELSE IF h.parent_[it] = Nil THEN RightmostFrom(h, h.left_[it])
    ELSE IF it = h.left_[h.parent_[it]] THEN h.parent_[it]
    ELSE LET p == h.parent_[it] IN
         IF h.left_[p] # Nil THEN RightmostFrom(h, h.left_[p]) ELSE p

RECURSIVE SubtractPostorderLoop(_, _)
\* while (it_->parent_->right_ == nullptr || it_ == it_->parent_->left_) {
\*     it_ = it_->parent_;
\*     if (it_->parent_ == nullptr) return *this;
\* }
\* it_ = it_->parent_;
\* if (it_->left_ != nullptr) it_ = it_->left_;
SubtractPostorderLoop(h, it) ==
    LET p == h.parent_[it] IN
    IF h.right_[p] = Nil \/ it = h.left_[p]
    THEN IF h.parent_[p] = Nil THEN p ELSE SubtractPostorderLoop(h, p)
    ELSE IF h.left_[p] # Nil THEN h.left_[p] ELSE p

\* Iterator::Subtract(Postorder)
SubtractPostorder(h, it) ==
    IF ~Valid(h, it) THEN UB
    ELSE IF h.parent_[it] = Nil THEN h.left_[it]
    ELSE IF h.right_[it] # Nil THEN h.right_[it]
    ELSE IF h.left_[it] # Nil THEN h.left_[it]
    ELSE SubtractPostorderLoop(h, it)

\* operator++ : Add(Pick())
Add(h, O, it) ==
    CASE O = "Inorder" -> AddInorder(h, it)
      [] O = "Preorder" -> AddPreorder(h, it)
      [] O = "Postorder" -> AddPostorder(h, it)

\* operator-- : Subtract(Pick())
Subtract(h, O, it) ==
    CASE O = "Inorder" -> SubtractInorder(h, it)
      [] O = "Preorder" -> SubtractPreorder(h, it)
      [] O = "Postorder" -> SubtractPostorder(h, it)

\* operator* : it_->data_
Deref(h, it) == IF Valid(h, it) THEN h.data_[it] ELSE UB

\* begin(Inorder) / begin(Preorder) / begin(Postorder)
begin(h, r, O) ==
    CASE O = "Inorder" -> Leftmost(h, r)
      [] O = "Preorder" -> IF Valid(h, r) THEN h.left_[r] ELSE UB
      [] O = "Postorder" -> LeftmostFrom(h, r)

\* end(Pick): the sentinel, for every order
end(h, r, O) == r

\* ReverseIterator::operator++ : --it_
ReverseInc(h, O, it) == Subtract(h, O, it)

\* ReverseIterator::operator-- : ++it_
ReverseDec(h, O, it) == Add(h, O, it)

\* rbegin(Pick): ++ReverseIterator(end(Pick)), whose ++ is -- on the base
rbegin(h, r, O) == Subtract(h, O, end(h, r, O))

\* rend(Pick): ++ReverseIterator(begin(Pick))
rend(h, r, O) == Subtract(h, O, begin(h, r, O))

\* ------------------------------------------------------------ Mutation Engine
\* The program state the operations below transform.
St == [heap |-> heap, root_ |-> root_, size_ |-> size_]

RECURSIVE InsertDescend(_, _, _, _)
\* while (current != nullptr) { parent = current;
\*     current = comp_(value, current->data_) ? current->left_ : current->right_; }
InsertDescend(h, current, parent, value) ==
    IF current = Nil THEN parent
    ELSE InsertDescend(h,
                       IF value < h.data_[current] THEN h.left_[current]
                                                   ELSE h.right_[current],
                       current, value)

\* Mutant of InsertLink: no special case for the sentinel as parent.
InsertLink_NoRootCase(h, r, parent, value, n) ==
    IF value < h.data_[parent] THEN [h EXCEPT !.left_[parent] = n]
    ELSE [h EXCEPT !.right_[parent] = n]

\* Mutant of InsertLink: links the new node on the opposite side.
InsertLink_OtherSide(h, r, parent, value, n) ==
    IF h.parent_[parent] = Nil THEN [h EXCEPT !.left_[r] = n]
    ELSE IF value < h.data_[parent] THEN [h EXCEPT !.right_[parent] = n]
    ELSE [h EXCEPT !.left_[parent] = n]

\* Mutant of InsertLink: a value equal to the parent's is linked to the left.
InsertLink_EqualLeft(h, r, parent, value, n) ==
    IF h.parent_[parent] = Nil THEN [h EXCEPT !.left_[r] = n]
    ELSE IF value <= h.data_[parent] THEN [h EXCEPT !.left_[parent] = n]
    ELSE [h EXCEPT !.right_[parent] = n]

\* The slot of parent that insert links the new node into.
InsertLink(h, r, parent, value, n) ==
    IF h.parent_[parent] = Nil THEN [h EXCEPT !.left_[r] = n]
    ELSE IF value < h.data_[parent] THEN [h EXCEPT !.left_[parent] = n]
    ELSE [h EXCEPT !.right_[parent] = n]

\* insert(const T& value): result [S, it]
insert(S, t, value) ==
    LET r == S.root_[t]
        parent == InsertDescend(S.heap, S.heap.left_[r], r, value)
        h1 == alloc_node(S.heap)
        n == NewNode(S.heap)
        h2 == [h1 EXCEPT !.data_[n] = value, !.parent_[n] = parent,
                         !.left_[n] = Nil, !.right_[n] = Nil]
        h3 == InsertLink(h2, r, parent, value, n)
    IN  [S |-> [S EXCEPT !.heap = h3, !.size_[t] = @ + 1], it |-> n]

\* "node->parent_->(left_|right_) = c" for the slot that holds node
SetParentSlot(h, node, c) ==
    LET p == h.parent_[node] IN
    IF node = h.left_[p] THEN [h EXCEPT !.left_[p] = c]
                         ELSE [h EXCEPT !.right_[p] = c]

\* Mutant of Splice: the child's parent_ is not updated.
Splice_NoParent(h, node, c) == SetParentSlot(h, node, c)

\* the slot assignment followed by "c->parent_ = node->parent_"
Splice(h, node, c) ==
    [SetParentSlot(h, node, c) EXCEPT !.parent_[c] = h.parent_[node]]

\* Mutant of DeleteNode: the two-children case does not re-hang the left
\* subtree under the in-order successor.
DeleteNode_DropLeft(h, node) ==
    LET l == h.left_[node]
        rt == h.right_[node]
        h1 == IF l = Nil /\ rt = Nil THEN SetParentSlot(h, node, Nil)
              ELSE IF l = Nil THEN Splice(h, node, rt)
              ELSE IF rt = Nil THEN Splice(h, node, l)
              ELSE Splice(h, node, rt)
    IN  delete_node(h1, node)

\* Mutant of DeleteNode: the two-children case puts the left subtree, not
\* the right one, into the parent slot and drops the right subtree.
DeleteNode_KeepLeft(h, node) ==
    LET l == h.left_[node]
        rt == h.right_[node]
        h1 == IF l = Nil /\ rt = Nil THEN SetParentSlot(h, node, Nil)
              ELSE IF l = Nil THEN Splice(h, node, rt)
              ELSE Splice(h, node, l)
    IN  delete_node(h1, node)

\* DeleteNode(Node<T>* node), node a data node
DeleteNode(h, node) ==
    LET l == h.left_[node]
        rt == h.right_[node]
        temp == LeftmostFrom(h, rt)
        h1 == IF l = Nil /\ rt = Nil THEN SetParentSlot(h, node, Nil)
              ELSE IF l = Nil THEN Splice(h, node, rt)
              ELSE IF rt = Nil THEN Splice(h, node, l)
              ELSE [Splice(h, node, rt) EXCEPT !.left_[temp] = l,
                                               !.parent_[l] = temp]
    IN  delete_node(h1, node)

\* Mutant of erase: returns the cursor it was given, not advanced.
erase_NoAdvance(S, t, O, it) ==
    IF it = end(S.heap, S.root_[t], O) THEN [S |-> S, it |-> it, ub |-> FALSE]
    ELSE LET next == Add(S.heap, O, it) IN
         IF next = UB \/ ~Valid(S.heap, it) \/ S.heap.parent_[it] = Nil
         THEN [S |-> S, it |-> UB, ub |-> TRUE]
         ELSE [S |-> [S EXCEPT !.heap = DeleteNode(S.heap, it),
                               !.size_[t] = @ - 1],
               it |-> it, ub |-> FALSE]

\* Mutant of erase: the node is deleted but size_ is not decremented.
erase_NoSizeUpdate(S, t, O, it) ==
    IF it = end(S.heap, S.root_[t], O) THEN [S |-> S, it |-> it, ub |-> FALSE]
    ELSE LET next == Add(S.heap, O, it) IN
         IF next = UB \/ ~Valid(S.heap, it) \/ S.heap.parent_[it] = Nil
         THEN [S |-> S, it |-> UB, ub |-> TRUE]
         ELSE [S |-> [S EXCEPT !.heap = DeleteNode(S.heap, it)],
               it |-> next, ub |-> FALSE]

\* erase(Iterator<., Pick> it): result [S, it, ub]
erase(S, t, O, it) ==
    IF it = end(S.heap, S.root_[t], O) THEN [S |-> S, it |-> it, ub |-> FALSE]
    ELSE LET next == Add(S.heap, O, it) IN
         IF next = UB \/ ~Valid(S.heap, it) \/ S.heap.parent_[it] = Nil
         THEN [S |-> S, it |-> UB, ub |-> TRUE]
         ELSE [S |-> [S EXCEPT !.heap = DeleteNode(S.heap, it),
                               !.size_[t] = @ - 1],
               it |-> next, ub |-> FALSE]

\* The steps after which a deterministic walk over the live nodes that has
\* not ended must have repeated a position, and so never ends.
WalkFuel(h) == Cardinality(h.live) + 1

RECURSIVE FindLoop(_, _, _, _, _, _)
\* while (it != end(Pick()) && *it != value) ++it;
FindLoop(h, r, O, value, it, fuel) ==
    IF it = end(h, r, O) THEN it
    ELSE IF ~Valid(h, it) THEN UB
    ELSE IF h.data_[it] = value THEN it
    ELSE IF fuel = 0 THEN Hang
    ELSE FindLoop(h, r, O, value, Add(h, O, it), fuel - 1)

\* find(const T& value, Pick)
find(h, r, value, O) == FindLoop(h, r, O, value, begin(h, r, O), WalkFuel(h))

\* contains(const T& value): find(value) != cend()
contains(h, r, value) == find(h, r, value, "Inorder") # end(h, r, "Inorder")

RECURSIVE RFindLoop(_, _, _, _, _, _)
\* while (it != end(Pick()) && *it == value) ++it;
RFindLoop(h, r, O, value, it, fuel) ==
    IF it = end(h, r, O) THEN it
    ELSE IF ~Valid(h, it) THEN UB
    ELSE IF h.data_[it] # value THEN it
    ELSE IF fuel = 0 THEN Hang
    ELSE RFindLoop(h, r, O, value, Add(h, O, it), fuel - 1)

\* rfind(const T& value, Pick)
rfind(h, r, value, O) ==
    LET first == find(h, r, value, O) IN
    IF first \in {UB, Hang} THEN first
    ELSE LET it == RFindLoop(h, r, O, value, first, WalkFuel(h)) IN
         IF it \in {UB, Hang} THEN it
         ELSE IF it # end(h, r, O) THEN Subtract(h, O, it)
         ELSE it

\* lower_bound(const T& value, Pick)
lower_bound(h, r, value, O) == find(h, r, value, O)

\* Mutant of upper_bound: returns the last occurrence itself.
upper_bound_NoStep(h, r, value, O) ==
    LET it == rfind(h, r, value, O) IN
    IF it \in {UB, Hang} THEN it
    ELSE it

\* upper_bound(const T& value, Pick)
upper_bound(h, r, value, O) ==
    LET it == rfind(h, r, value, O) IN
    IF it \in {UB, Hang} THEN it
    ELSE IF it # end(h, r, O) THEN Add(h, O, it)
    ELSE it

\* equal_range(const T& value, Pick)
equal_range(h, r, value, O) ==
    <<lower_bound(h, r, value, O), upper_bound(h, r, value, O)>>

RECURSIVE EraseValueLoop(_, _, _, _)
\* erase(const T& value): result [S, n, ub]
\* while (it != end()) { erase(it); ++count; it = find(value); }
EraseValueLoop(S, t, value, count) ==
    LET it == find(S.heap, S.root_[t], value, "Inorder") IN
    IF it = end(S.heap, S.root_[t], "Inorder")
    THEN [S |-> S, n |-> count, ub |-> FALSE]
    ELSE LET e == erase(S, t, "Inorder", it) IN
         IF it \in {UB, Hang} \/ e.ub THEN [S |-> S, n |-> count, ub |-> TRUE]
         ELSE EraseValueLoop(e.S, t, value, count + 1)

\* Mutant of erase_value: "if" instead of "while", one match is erased.
erase_value_once(S, t, value) ==
    LET it == find(S.heap, S.root_[t], value, "Inorder") IN
    IF it = end(S.heap, S.root_[t], "Inorder")
    THEN [S |-> S, n |-> 0, ub |-> FALSE]
    ELSE [S |-> erase(S, t, "Inorder", it).S, n |-> 1, ub |-> FALSE]

\* erase(const T& value)
erase_value(S, t, value) == EraseValueLoop(S, t, value, 0)

\* Iterations after which erase(first, last) cannot end any more: every
\* iteration releases a node or finds first at the sentinel, and two
\* iterations in a row at the sentinel repeat for ever.
RangeFuel(h) == 2 * Cardinality(h.live) + 2

RECURSIVE EraseRangeLoop(_, _, _, _, _, _)
\* erase(first, last): result [S, st]
\* while (first != last) erase(first++);
EraseRangeLoop(S, t, O, first, last, fuel) ==
    IF first = last THEN [S |-> S, st |-> "ok"]
    ELSE IF fuel = 0 THEN [S |-> S, st |-> "hang"]
    ELSE LET next == Add(S.heap, O, first)
             e == erase(S, t, O, first)
         IN  IF next = UB \/ e.ub THEN [S |-> S, st |-> "ub"]
             ELSE EraseRangeLoop(e.S, t, O, next, last, fuel - 1)

erase_range(S, t, O, first, last) ==
    EraseRangeLoop(S, t, O, first, last, RangeFuel(S.heap))

\* extract(Iterator it): T value = *it; erase(it); return value;
\* result [S, v, ub]
extract(S, t, O, it) ==
    LET e == erase(S, t, O, it) IN
    IF ~Valid(S.heap, it) \/ e.ub THEN [S |-> S, v |-> UB, ub |-> TRUE]
    ELSE [S |-> e.S, v |-> S.heap.data_[it], ub |-> FALSE]

\* extract(const T& value): extract(find(value))
extract_value(S, t, value) ==
    extract(S, t, "Inorder", find(S.heap, S.root_[t], value, "Inorder"))

RECURSIVE ClearRecursive(_, _)
\* ClearRecursive(node): left subtree, right subtree, then the node itself
ClearRecursive(h, n) ==
    IF n = Nil THEN h
    ELSE LET h1 == ClearRecursive(h, h.left_[n])
             h2 == ClearRecursive(h1, h1.right_[n])
         IN  delete_node(h2, n)

\* clear()
clear(S, t) ==
    LET r == S.root_[t]
        h1 == ClearRecursive(S.heap, S.heap.left_[r])
    IN  [S EXCEPT !.heap = [h1 EXCEPT !.left_[r] = Nil], !.size_[t] = 0]

RECURSIVE CountLoop(_, _, _, _)
\* while (current != nullptr) {
\*     if (current->data_ == value) count++;
\*     current = comp_(value, current->data_) ? current->left_
\*                                            : current->right_; }
CountLoop(h, value, current, n) ==
    IF current = Nil THEN n
    ELSE CountLoop(h, value,
                   IF value < h.data_[current] THEN h.left_[current]
                   ELSE h.right_[current],
                   IF h.data_[current] = value THEN n + 1 ELSE n)

\* Mutant of count: stops at the first match.
count_FirstOnly(h, r, value) ==
    IF CountLoop(h, value, h.left_[r], 0) > 0 THEN 1 ELSE 0

\* count(const T& value)
count(h, r, value) == CountLoop(h, value, h.left_[r], 0)

\* ---------------------------------------------------------------- two trees
\* swap(BST& other): the sentinels change hands, size_ stays
swap(S, t, u) ==
    [S EXCEPT !.root_[t] = S.root_[u], !.root_[u] = S.root_[t]]

\* operator=(BST&& other): if (this != &other) { ClearRecursive(root_);
\* root_ = other.root_; size_ = other.size_; }  The receiver's own sentinel
\* is released with its nodes, and other keeps its root_ and size_.
move_assign(S, t, u) ==
    IF t = u THEN S
    ELSE [S EXCEPT !.heap = ClearRecursive(S.heap, S.root_[t]),
                   !.root_[t] = S.root_[u],
                   !.size_[t] = S.size_[u]]

\* ~BST(): ClearRecursive(root_)
Destructor(S, t) == [S EXCEPT !.heap = ClearRecursive(S.heap, S.root_[t])]

RECURSIVE InsertRangeLoop(_, _, _, _)
\* insert(InputIt first, InputIt last), the cursors in-order cursors of
\* another tree: while (first != last) { insert(*first); ++first; }
InsertRangeLoop(S, t, first, last) ==
    IF first = last THEN S
    ELSE InsertRangeLoop(insert(S, t, S.heap.data_[first]).S, t,
                         AddInorder(S.heap, first), last)

\* insert_range(const Container& c): insert(c.cbegin(), c.cend())
insert_range(S, t, u) ==
    InsertRangeLoop(S, t, begin(S.heap, S.root_[u], "Inorder"),
                    end(S.heap, S.root_[u], "Inorder"))

\* Mutant of merge: the first element of the other tree is skipped.
merge_SkipFirst(S, t, u) ==
    LET b == begin(S.heap, S.root_[u], "Inorder")
        e == end(S.heap, S.root_[u], "Inorder")
    IN  InsertRangeLoop(S, t, IF b = e THEN b ELSE AddInorder(S.heap, b), e)

\* merge(const BST& other)
merge(S, t, u) == insert_range(S, t, u)

RECURSIVE EqualLoop(_, _, _, _)
\* for (auto it = cbegin(); it != cend(); ++it) {
\*     if (*it != *other_it) return false;
\*     ++other_it; }
\* return true;
EqualLoop(h, r, it, other_it) ==
    IF it = end(h, r, "Inorder") THEN TRUE
    ELSE IF h.data_[it] # h.data_[other_it] THEN FALSE
    ELSE EqualLoop(h, r, AddInorder(h, it), AddInorder(h, other_it))

\* Mutant of operator==: the sizes alone decide.
Equal_SizeOnly(S, t, u) == S.size_[t] = S.size_[u]

\* operator==(const BST& other)
Equal(S, t, u) ==
    IF S.size_[t] # S.size_[u] THEN FALSE
    ELSE EqualLoop(S.heap, S.root_[t],
                   begin(S.heap, S.root_[t], "Inorder"),
                   begin(S.heap, S.root_[u], "Inorder"))

\* ------------------------------------------------------------------ traversals
RECURSIVE WalkLoop(_, _, _, _, _, _)
\* for (auto i = begin(O); i != end(O); ++i) actual += *i;
\* result [seq, st]: the nodes dereferenced, in order
WalkLoop(h, r, O, it, fuel, acc) ==
    IF it = end(h, r, O) THEN [seq |-> acc, st |-> "ok"]
    ELSE IF ~Valid(h, it) THEN [seq |-> acc, st |-> "ub"]
    ELSE IF fuel = 0 THEN [seq |-> acc, st |-> "hang"]
    ELSE WalkLoop(h, r, O, Add(h, O, it), fuel - 1, Append(acc, it))

Walk(h, r, O) == WalkLoop(h, r, O, begin(h, r, O), WalkFuel(h), <<>>)

RECURSIVE RWalkLoop(_, _, _, _, _, _)
\* while (rev != rend(O)) { out << *rev; ++rev; }   (++rev is -- on the base)
RWalkLoop(h, r, O, it, fuel, acc) ==
    LET stop == rend(h, r, O) IN
    IF stop = UB \/ it = UB THEN [seq |-> acc, st |-> "ub"]
    ELSE IF it = stop THEN [seq |-> acc, st |-> "ok"]
    ELSE IF ~Valid(h, it) THEN [seq |-> acc, st |-> "ub"]
    ELSE IF fuel = 0 THEN [seq |-> acc, st |-> "hang"]
    ELSE RWalkLoop(h, r, O, Subtract(h, O, it), fuel - 1, Append(acc, it))

\* auto rev = rbegin(O); then the loop above
RWalk(h, r, O) == RWalkLoop(h, r, O, rbegin(h, r, O), WalkFuel(h), <<>>)

\* -------------------------------------------------------------------- actions
RECURSIVE Subtree(_, _)
\* the nodes of the subtree rooted at n
Subtree(h, n) ==
    IF n = Nil THEN {}
    ELSE {n} \cup Subtree(h, h.left_[n]) \cup Subtree(h, h.right_[n])

\* the data nodes of the tree whose sentinel is r
DataNodes(h, r) == Subtree(h, h.left_[r])

\* The cursors a caller can hold on tree t: its data nodes and end().
Cursors(t) == DataNodes(heap, root_[t]) \cup {root_[t]}

\* What the build can do after undefined behaviour: trap, or go on with an
\* indeterminate value.
UBOutcome == {"fault", "undef"}

Outcome(st) == IF st = "ub" THEN UBOutcome ELSE {st}

Ret(op, t, O, v, it, it2, n, seq, status) ==
    [op |-> op, t |-> t, order |-> O, v |-> v, it |-> it, it2 |-> it2,
     n |-> n, seq |-> seq, status |-> status]

\* No call is in flight: the caller is between two statements.  (A call that
\* has trapped or hangs never returns, so nothing runs after it.)
NoRet == Ret("none", "a", "Inorder", 0, Nil, Nil, 0, <<>>, "ok")

Alive == ret = NoRet

\* ghost bookkeeping: the elements the step added to and removed from tree t
Removed(h, h2, v) == Cardinality({n \in h.live \ h2.live : h.data_[n] = v})

Account(t, ins, h2) ==
    elems' = [elems EXCEPT ![t] = [v \in Val |->
                  @[v] + (IF v \in ins THEN 1 ELSE 0) - Removed(heap, h2, v)]]

Commit(S) ==
    /\ heap' = S.heap
    /\ root_' = S.root_
    /\ size_' = S.size_

Init ==
    /\ heap = [parent_ |-> [n \in Node |-> Nil], left_ |-> [n \in Node |-> Nil],
               right_ |-> [n \in Node |-> Nil], data_ |-> [n \in Node |-> 0],
               live |-> {Sentinel(t) : t \in BSTs}]
    /\ root_ = [t \in BSTs |-> Sentinel(t)]
    /\ size_ = [t \in BSTs |-> 0]
    /\ elems = [t \in BSTs |-> [v \in Val |-> 0]]
    /\ ret = NoRet

\* The program holds fewer than k elements in all: it has room for one more.
Room(k) == Cardinality(heap.live) < k + 2

\* bst.insert(v)
Insert(t, v) ==
    /\ Alive
    /\ FreeNodes(heap) # {}
    /\ LET res == insert(St, t, v) IN
       /\ Commit(res.S)
       /\ Account(t, {v}, res.S.heap)
       /\ ret' = Ret("insert", t, "Inorder", v, res.it, Nil, 0, <<>>, "ok")

\* bst.erase(it), it a cursor of order O
EraseIt(t, O, it) ==
    /\ Alive
    /\ LET res == erase(St, t, O, it) IN
       /\ Commit(res.S)
       /\ Account(t, {}, res.S.heap)
       /\ \E st \in Outcome(IF res.ub THEN "ub" ELSE "ok") :
            ret' = Ret("erase", t, O, Deref(heap, it), res.it, it, 0, <<>>, st)

\* bst.erase(v)
EraseValue(t, v) ==
    /\ Alive
    /\ LET res == erase_value(St, t, v) IN
       /\ Commit(res.S)
       /\ Account(t, {}, res.S.heap)
       /\ \E st \in Outcome(IF res.ub THEN "ub" ELSE "ok") :
            ret' = Ret("erase_value", t, "Inorder", v, Nil, Nil, res.n, <<>>, st)

\* bst.erase(first, last): first and last are positions i <= j of the forward
\* walk of order O (the position after the walk's last node is end(O))
EraseRange(t, O, i, j) ==
    /\ Alive
    /\ LET w == Walk(heap, root_[t], O)
           pos == w.seq \o <<end(heap, root_[t], O)>>
       IN
       /\ w.st = "ok"
       /\ i \in 1..Len(pos) /\ j \in i..Len(pos)
       /\ LET res == erase_range(St, t, O, pos[i], pos[j]) IN
          /\ Commit(res.S)
          /\ Account(t, {}, res.S.heap)
          /\ \E st \in Outcome(res.st) :
               ret' = Ret("erase_range", t, O, 0, pos[i], pos[j], 0,
                          SubSeq(w.seq, i, j - 1), st)

\* bst.extract(it)
ExtractIt(t, O, it) ==
    /\ Alive
    /\ LET res == extract(St, t, O, it) IN
       /\ Commit(res.S)
       /\ Account(t, {}, res.S.heap)
       /\ \E st \in Outcome(IF res.ub THEN "ub" ELSE "ok") :
            ret' = Ret("extract", t, O, res.v, Nil, it, 0, <<>>, st)

\* bst.extract(v)
ExtractValue(t, v) ==
    /\ Alive
    /\ LET res == extract_value(St, t, v) IN
       /\ Commit(res.S)
       /\ Account(t, {}, res.S.heap)
       /\ \E st \in Outcome(IF res.ub THEN "ub" ELSE "ok") :
            ret' = Ret("extract_value", t, "Inorder", v, Nil, Nil, res.v, <<>>, st)

\* bst.clear()
Clear(t) ==
    /\ Alive
    /\ LET S == clear(St, t) IN
       /\ Commit(S)
       /\ Account(t, {}, S.heap)
       /\ ret' = Ret("clear", t, "Inorder", 0, Nil, Nil, 0, <<>>, "ok")

\* for (auto i = bst.begin(O); i != bst.end(O); ++i) ... *i ...
Traverse(t, O) ==
    /\ Alive
    /\ LET w == Walk(heap, root_[t], O) IN
       \E st \in Outcome(w.st) :
          ret' = Ret("walk", t, O, 0, Nil, Nil, 0, w.seq, st)
    /\ UNCHANGED <<heap, root_, size_, elems>>

\* auto rev = bst.rbegin(O); while (rev != bst.rend(O)) { ... *rev ...; ++rev; }
ReverseTraverse(t, O) ==
    /\ Alive
    /\ LET w == RWalk(heap, root_[t], O) IN
       \E st \in Outcome(w.st) :
          ret' = Ret("rwalk", t, O, 0, Nil, Nil, 0, w.seq, st)
    /\ UNCHANGED <<heap, root_, size_, elems>>

\* bst.begin(O) and bst.end(O)
BeginEnd(t, O) ==
    /\ Alive
    /\ ret' = Ret("begin_end", t, O, 0, begin(heap, root_[t], O),
                  end(heap, root_[t], O), 0, <<>>, "ok")
    /\ UNCHANGED <<heap, root_, size_, elems>>

\* bst.find(v, O)
Find(t, v, O) ==
    /\ Alive
    /\ LET it == find(heap, root_[t], v, O) IN
       \E st \in (IF it = UB THEN UBOutcome
                  ELSE IF it = Hang THEN {"hang"} ELSE {"ok"}) :
          ret' = Ret("find", t, O, v, it, Nil, 0, <<>>, st)
    /\ UNCHANGED <<heap, root_, size_, elems>>

\* bst.contains(v)
Contains(t, v) ==
    /\ Alive
    /\ ret' = Ret("contains", t, "Inorder", v, Nil, Nil,
                  IF contains(heap, root_[t], v) THEN 1 ELSE 0, <<>>, "ok")
    /\ UNCHANGED <<heap, root_, size_, elems>>

\* how a call that computed the cursor it ends
CursorOutcome(it) ==
    IF it = UB THEN UBOutcome ELSE IF it = Hang THEN {"hang"} ELSE {"ok"}

\* bst.rfind(v, O)
RFind(t, v, O) ==
    /\ Alive
    /\ LET it == rfind(heap, root_[t], v, O) IN
       \E st \in CursorOutcome(it) :
          ret' = Ret("rfind", t, O, v, it, Nil, 0, <<>>, st)
    /\ UNCHANGED <<heap, root_, size_, elems>>

\* bst.lower_bound(v, O)
LowerBound(t, v, O) ==
    /\ Alive
    /\ LET it == lower_bound(heap, root_[t], v, O) IN
       \E st \in CursorOutcome(it) :
          ret' = Ret("lower_bound", t, O, v, it, Nil, 0, <<>>, st)
    /\ UNCHANGED <<heap, root_, size_, elems>>

\* bst.upper_bound(v, O)
UpperBound(t, v, O) ==
    /\ Alive
    /\ LET it == upper_bound(heap, root_[t], v, O) IN
       \E st \in CursorOutcome(it) :
          ret' = Ret("upper_bound", t, O, v, it, Nil, 0, <<>>, st)
    /\ UNCHANGED <<heap, root_, size_, elems>>

\* bst.equal_range(v, O)
EqualRange(t, v, O) ==
    /\ Alive
    /\ LET p == equal_range(heap, root_[t], v, O) IN
       \E st \in (IF UB \in {p[1], p[2]} THEN UBOutcome
                  ELSE IF Hang \in {p[1], p[2]} THEN {"hang"} ELSE {"ok"}) :
          ret' = Ret("equal_range", t, O, v, p[1], p[2], 0, <<>>, st)
    /\ UNCHANGED <<heap, root_, size_, elems>>

\* bst.count(v)
Count(t, v) ==
    /\ Alive
    /\ ret' = Ret("count", t, "Inorder", v, Nil, Nil,
                  count(heap, root_[t], v), <<>>, "ok")
    /\ UNCHANGED <<heap, root_, size_, elems>>

\* auto it = bst.begin(O); --it;
BeginStepBack(t, O) ==
    /\ Alive
    /\ LET b == begin(heap, root_[t], O)
           it == Subtract(heap, O, b)
       IN  \E st \in CursorOutcome(it) :
              ret' = Ret("begin_back", t, O, 0, b, it, 0, <<>>, st)
    /\ UNCHANGED <<heap, root_, size_, elems>>

\* auto q = p; ++q; auto back = q; --back;   (p a cursor of order O)
StepForthBack(t, O, p) ==
    /\ Alive
    /\ LET q == Add(heap, O, p)
           back == IF q = UB THEN UB ELSE Subtract(heap, O, q)
       IN  \E st \in CursorOutcome(back) :
              ret' = Ret("forth_back", t, O, 0, p, q, back, <<>>, st)
    /\ UNCHANGED <<heap, root_, size_, elems>>

\* auto it = bst.end(O); ++it;
EndStepForth(t, O) ==
    /\ Alive
    /\ LET e == end(heap, root_[t], O)
           it == Add(heap, O, e)
       IN  \E st \in CursorOutcome(it) :
              ret' = Ret("end_forth", t, O, 0, e, it, 0, <<>>, st)
    /\ UNCHANGED <<heap, root_, size_, elems>>

\* ReverseIterator rev(p); ++rev; --rev;   (p a cursor of order O)
ReverseForthBack(t, O, p) ==
    /\ Alive
    /\ LET q == ReverseInc(heap, O, p)
           back == IF q = UB THEN UB ELSE ReverseDec(heap, O, q)
       IN  \E st \in CursorOutcome(back) :
              ret' = Ret("rev_forth_back", t, O, 0, p, q, back, <<>>, st)
    /\ UNCHANGED <<heap, root_, size_, elems>>

\* A walk in progress keeps its cursor in ret.it; ret.n is 1 once the walk
\* has taken a step or needs none to start.
\* for (auto i = bst.begin(O); i != bst.end(O); ++i): the initialisation
StartForth(t, O) ==
    /\ Alive
    /\ ret' = Ret("forth", t, O, 0, begin(heap, root_[t], O), Nil, 1, <<>>, "ok")
    /\ UNCHANGED <<heap, root_, size_, elems>>

\* the ++i of that loop, taken while i != bst.end(O)
StepForth ==
    /\ ret.op = "forth" /\ ret.status = "ok"
    /\ ret.it # end(heap, root_[ret.t], ret.order)
    /\ LET it == Add(heap, ret.order, ret.it) IN
       \E st \in CursorOutcome(it) :
          ret' = [ret EXCEPT !.it = it, !.status = st]
    /\ UNCHANGED <<heap, root_, size_, elems>>

\* auto i = bst.end(O); do { --i; } while (i != bst.end(O)): the initialisation
StartBack(t, O) ==
    /\ Alive
    /\ ret' = Ret("back", t, O, 0, end(heap, root_[t], O), Nil, 0, <<>>, "ok")
    /\ UNCHANGED <<heap, root_, size_, elems>>

\* the --i of that loop: the first one, and then while i != bst.end(O)
StepBack ==
    /\ ret.op = "back" /\ ret.status = "ok"
    /\ ret.n = 0 \/ ret.it # end(heap, root_[ret.t], ret.order)
    /\ LET it == Subtract(heap, ret.order, ret.it) IN
       \E st \in CursorOutcome(it) :
          ret' = [ret EXCEPT !.it = it, !.n = 1, !.status = st]
    /\ UNCHANGED <<heap, root_, size_, elems>>

\* a walk is under way
Walking == ret.op \in {"forth", "back"}

\* the walk has left its loop: the cursor is on the sentinel
WalkDone ==
    /\ Walking /\ ret.status = "ok"
    /\ ret.n = 1
    /\ ret.it = end(heap, root_[ret.t], ret.order)

\* the number of elements equal to v that tree u stores
Holds(u, v) == Cardinality({n \in DataNodes(heap, root_[u]) : heap.data_[n] = v})

\* a.swap(b)
Swap(t, u) ==
    /\ Alive
    /\ t # u
    /\ Commit(swap(St, t, u))
    /\ elems' = [elems EXCEPT ![t] = elems[u], ![u] = elems[t]]
    /\ ret' = Ret("swap", t, "Inorder", 0, Nil, Nil, 0, <<>>, "ok")

\* a.merge(b), b another tree
Merge(t, u) ==
    /\ Alive
    /\ t # u
    /\ Cardinality(heap.live) + Cardinality(DataNodes(heap, root_[u]))
          <= MaxPairNodes + 2
    /\ Commit(merge(St, t, u))
    /\ elems' = [elems EXCEPT ![t] = [v \in Val |-> @[v] + Holds(u, v)]]
    /\ ret' = Ret("merge", t, "Inorder", 0, Nil, Nil, 0, <<>>, "ok")

\* a == b
Compare(t, u) ==
    /\ Alive
    /\ t # u
    /\ ret' = Ret("equal", t, "Inorder", 0, Nil, Nil,
                  IF Equal(St, t, u) THEN 1 ELSE 0, <<>>, "ok")
    /\ UNCHANGED <<heap, root_, size_, elems>>

\* The object t exists: it was constructed and its destructor has not run.
\* (The model records a destroyed object by root_[t] = Nil.)
Exists(t) == root_[t] # Nil

\* root_ of t points to a node that has been released
Dangling(t) == root_[t] \notin heap.live

\* A call that reads through a released root_ is undefined behaviour.
UseReleased(op, t, v) ==
    /\ Alive
    /\ \E st \in UBOutcome :
          ret' = Ret(op, t, "Inorder", v, Nil, Nil, 0, <<>>, st)
    /\ UNCHANGED <<heap, root_, size_, elems>>

\* t.insert(v) in a program that also moves and destroys trees
InsertMoved(t, v) ==
    /\ Exists(t)
    /\ IF Dangling(t) THEN UseReleased("insert", t, v) ELSE Insert(t, v)

\* t = std::move(u): t is expected to hold what u held.
MoveAssign(t, u) ==
    /\ Exists(t) /\ Exists(u)
    /\ IF t # u /\ Dangling(t) THEN UseReleased("move", t, 0)
       ELSE /\ Alive
            /\ Commit(move_assign(St, t, u))
            /\ elems' = [elems EXCEPT ![t] = elems[u]]
            /\ ret' = Ret("move", t, "Inorder", 0, Nil, Nil, 0, <<>>, "ok")

\* t goes out of scope: ~BST() runs and the object is gone.
Destroy(t) ==
    /\ Exists(t)
    /\ IF Dangling(t) THEN UseReleased("destroy", t, 0)
       ELSE /\ Alive
            /\ heap' = Destructor(St, t).heap
            /\ root_' = [root_ EXCEPT ![t] = Nil]
            /\ UNCHANGED <<size_, elems>>
            /\ ret' = Ret("destroy", t, "Inorder", 0, Nil, Nil, 0, <<>>, "ok")

\* The statement ends: the caller drops the value the call returned.
Return ==
    /\ ret # NoRet
    /\ ret.status = "ok"
    /\ ret' = NoRet
    /\ UNCHANGED <<heap, root_, size_, elems>>

Next ==
    \/ Return
    \/ \E t \in Active :
       \/ \E v \in Val : Room(MaxNodes) /\ Insert(t, v)
       \/ \E O \in Order : \E it \in Cursors(t) : EraseIt(t, O, it)
       \/ \E v \in Val : EraseValue(t, v)
       \/ \E O \in Order : \E i, j \in 1..(MaxNodes + 1) : EraseRange(t, O, i, j)
       \/ \E O \in Order : \E it \in Cursors(t) : ExtractIt(t, O, it)
       \/ \E v \in Val : ExtractValue(t, v)
       \/ Clear(t)
       \/ \E O \in Order : Traverse(t, O)
       \/ \E O \in Order : ReverseTraverse(t, O)
       \/ \E O \in Order : BeginEnd(t, O)
       \/ \E v \in Val : \E O \in Order : Find(t, v, O)
       \/ \E v \in Val : Contains(t, v)

Spec == Init /\ [][Next]_vars

\* The lookups, on the trees that insertions and erasures build.
NextLookup ==
    \/ Return
    \/ \E t \in Active :
       \/ \E v \in Val : Room(MaxNodes) /\ Insert(t, v)
       \/ \E O \in Order : \E it \in Cursors(t) : EraseIt(t, O, it)
       \/ \E v \in Val : EraseValue(t, v)
       \/ \E v \in Val : \E O \in Order : Find(t, v, O)
       \/ \E v \in Val : \E O \in Order : RFind(t, v, O)
       \/ \E v \in Val : \E O \in Order : LowerBound(t, v, O)
       \/ \E v \in Val : \E O \in Order : UpperBound(t, v, O)
       \/ \E v \in Val : \E O \in Order : EqualRange(t, v, O)
       \/ \E v \in Val : Count(t, v)
       \/ \E v \in Val : Contains(t, v)

SpecLookup == Init /\ [][NextLookup]_vars

\* Cursor steps at the ends of a traversal, on the trees that insertions
\* and erasures build.
NextCursor ==
    \/ Return
    \/ \E t \in Active :
       \/ \E v \in Val : Room(MaxCursorNodes) /\ Insert(t, v)
       \/ \E O \in Order : \E it \in Cursors(t) : EraseIt(t, O, it)
       \/ \E O \in Order : BeginEnd(t, O)
       \/ \E O \in Order : BeginStepBack(t, O)
       \/ \E O \in Order : EndStepForth(t, O)
       \/ \E O \in Order : \E p \in Cursors(t) : ReverseForthBack(t, O, p)
       \/ \E O \in Order : \E p \in Cursors(t) : StepForthBack(t, O, p)

SpecCursor == Init /\ [][NextCursor]_vars

\* Full walks taken step by step, forth from begin(O) and back from end(O),
\* on the trees that insertions and erasures build.  The thread that runs a
\* loop keeps running it: the steps of a walk are weakly fair.
NextWalk ==
    \/ (~Walking \/ WalkDone) /\ Return
    \/ StepForth
    \/ StepBack
    \/ \E t \in Active :
       \/ \E v \in Val : Room(MaxCursorNodes) /\ Insert(t, v)
       \/ \E it \in Cursors(t) : EraseIt(t, "Inorder", it)
       \/ \E O \in Order : StartForth(t, O)
       \/ \E O \in Order : StartBack(t, O)

SpecWalk == Init /\ [][NextWalk]_vars /\ WF_vars(StepForth \/ StepBack)

\* Two trees built by insertions and erasures, and compared.
NextEqual ==
    \/ Return
    \/ \E t \in BSTs :
       \/ \E v \in PairVal : Room(MaxPairNodes) /\ Insert(t, v)
       \/ \E it \in Cursors(t) : EraseIt(t, "Inorder", it)
       \/ \E u \in BSTs : Compare(t, u)

SpecEqual == Init /\ [][NextEqual]_vars

\* Two trees built by insertions, and swapped.
NextSwap ==
    \/ Return
    \/ \E t \in BSTs :
       \/ \E v \in PairVal : Room(MaxPairNodes) /\ Insert(t, v)
       \/ \E u \in BSTs : Swap(t, u)

SpecSwap == Init /\ [][NextSwap]_vars

\* Two trees built by insertions, and merged.
NextMerge ==
    \/ Return
    \/ \E t \in BSTs :
       \/ \E v \in PairVal : Room(MaxPairNodes) /\ Insert(t, v)
       \/ \E u \in BSTs : Merge(t, u)

SpecMerge == Init /\ [][NextMerge]_vars

\* Two trees built by insertions, move-assigned and destroyed.
NextMove ==
    \/ Return
    \/ \E t \in BSTs :
       \/ \E v \in PairVal : Room(MaxPairNodes) /\ InsertMoved(t, v)
       \/ \E u \in BSTs : MoveAssign(t, u)
       \/ Destroy(t)

SpecMove == Init /\ [][NextMove]_vars

\* ------------------------------------------------- reference definitions
RECURSIVE RefInorder(_, _)
\* left subtree, node, right subtree
RefInorder(h, n) ==
    IF n = Nil THEN <<>>
    ELSE RefInorder(h, h.left_[n]) \o <<n>> \o RefInorder(h, h.right_[n])

RECURSIVE RefPreorder(_, _)
\* node, left subtree, right subtree
RefPreorder(h, n) ==
    IF n = Nil THEN <<>>
    ELSE <<n>> \o RefPreorder(h, h.left_[n]) \o RefPreorder(h, h.right_[n])

RECURSIVE RefPostorder(_, _)
\* left subtree, right subtree, node
RefPostorder(h, n) ==
    IF n = Nil THEN <<>>
    ELSE RefPostorder(h, h.left_[n]) \o RefPostorder(h, h.right_[n]) \o <<n>>

Ref(h, r, O) ==
    CASE O = "Inorder" -> RefInorder(h, h.left_[r])
      [] O = "Preorder" -> RefPreorder(h, h.left_[r])
      [] O = "Postorder" -> RefPostorder(h, h.left_[r])

Reverse(s) == [i \in 1..Len(s) |-> s[Len(s) + 1 - i]]

\* the values held by a sequence of nodes
Values(h, s) == [i \in 1..Len(s) |-> h.data_[s[i]]]

NonDecreasing(vs) == \A i \in 1..(Len(vs) - 1) : vs[i] <= vs[i + 1]

NoRepeat(s) == \A i, j \in 1..Len(s) : s[i] = s[j] => i = j

Occurrences(vs, v) == Cardinality({i \in 1..Len(vs) : vs[i] = v})

\* the number of elements the ghost bag of tree t holds
Stored(t) ==
    LET RECURSIVE Sum(_)
        Sum(v) == IF v = 0 THEN 0 ELSE elems[t][v] + Sum(v - 1)
    IN  Sum(MaxVal)

Root(t) == root_[t]

\* ---------------------------------------------------------------------- C1
\* C1: an in-order traversal from begin() to end(), in any state reached by
\* insertions and erasures, ends normally, visits every stored element
\* exactly once (no node twice, each value as often as it is stored) and
\* yields a non-decreasing sequence of values.
C1_InorderSortedComplete ==
    (ret.op = "walk" /\ ret.order = "Inorder") =>
        /\ ret.status = "ok"
        /\ NoRepeat(ret.seq)
        /\ \A v \in Val :
              Occurrences(Values(heap, ret.seq), v) = elems[ret.t][v]
        /\ NonDecreasing(Values(heap, ret.seq))

\* An in-order walk over three elements with a duplicate value.  The data
\* root is not the first node ever allocated, so an erase came before.
C1_Witness ==
    /\ ret.op = "walk" /\ ret.order = "Inorder" /\ ret.status = "ok"
    /\ Len(ret.seq) = 3
    /\ \E i \in 1..2 : heap.data_[ret.seq[i]] = heap.data_[ret.seq[i + 1]]
    /\ heap.left_[Root(ret.t)] # Cardinality(BSTs) + 1

\* ---------------------------------------------------------------------- C2
\* C2: on every non-empty tree, iterating from begin(Preorder()) to
\* end(Preorder()) ends normally and yields the reference pre-order
\* sequence (node, left subtree, right subtree).
C2_PreorderWalk ==
    (ret.op = "walk" /\ ret.order = "Preorder" /\ ~empty(heap, Root(ret.t))) =>
        /\ ret.status = "ok"
        /\ ret.seq = Ref(heap, Root(ret.t), "Preorder")

\* ---------------------------------------------------------------------- C3
\* C3: on every non-empty tree, iterating from begin(Postorder()) to
\* end(Postorder()) ends normally and yields the reference post-order
\* sequence (left subtree, right subtree, node).
C3_PostorderWalk ==
    (ret.op = "walk" /\ ret.order = "Postorder" /\ ~empty(heap, Root(ret.t))) =>
        /\ ret.status = "ok"
        /\ ret.seq = Ref(heap, Root(ret.t), "Postorder")

\* ---------------------------------------------------------------------- C4
\* C4: for every order O and every non-empty tree, the forward walk from
\* begin(O) first reaches end(O) after exactly size() steps.
C4_WalkLength ==
    (ret.op = "walk" /\ ~empty(heap, Root(ret.t))) =>
        /\ ret.status = "ok"
        /\ Len(ret.seq) = size_[ret.t]

\* ---------------------------------------------------------------------- C5
\* C5: whenever no call has failed, size() equals the number of data nodes
\* reachable from the sentinel, and that is the number of insertions minus
\* the number of elements removed.
C5_SizeCounts ==
    (ret.status = "ok") =>
        \A t \in Active :
            /\ size_[t] = Cardinality(DataNodes(heap, Root(t)))
            /\ size_[t] = Stored(t)

\* erase(first, last) has just removed two elements and left another.
C5_Witness ==
    /\ ret.op = "erase_range" /\ ret.status = "ok" /\ Len(ret.seq) = 2
    /\ size_[ret.t] = 1

\* ---------------------------------------------------------------------- C6
\* C6: on every non-empty tree, iterating a reverse in-order cursor from
\* rbegin() until it equals rend() completes without fault and yields the
\* in-order sequence reversed.
C6_ReverseInorderWalk ==
    (ret.op = "rwalk" /\ ret.order = "Inorder" /\ ~empty(heap, Root(ret.t))) =>
        /\ ret.status = "ok"
        /\ ret.seq = Reverse(Ref(heap, Root(ret.t), "Inorder"))

\* ---------------------------------------------------------------------- C7
\* C7: on an empty tree begin(O) = end(O), for every order O.
C7_EmptyBeginIsEnd ==
    (ret.op = "begin_end" /\ empty(heap, Root(ret.t))) => ret.it = ret.it2

\* ---------------------------------------------------------------------- C8
\* C8: in the state insert(v) returns in, find(v) is a cursor other than
\* end() and dereferences to v.
C8_InsertThenFind ==
    (ret.op = "insert") =>
        LET it == find(heap, Root(ret.t), ret.v, "Inorder") IN
        /\ it # end(heap, Root(ret.t), "Inorder")
        /\ Deref(heap, it) = ret.v

\* insert(v) into a tree that already held v: find(v) is the older node.
C8_Witness ==
    /\ ret.op = "insert" /\ size_[ret.t] >= 3
    /\ find(heap, Root(ret.t), ret.v, "Inorder") \in DataNodes(heap, Root(ret.t))
    /\ find(heap, Root(ret.t), ret.v, "Inorder") # ret.it

\* ---------------------------------------------------------------------- C9
\* C9: a step that erases, by cursor or by value, a value v stored exactly
\* once leaves find(v) = end() and contains(v) false, and every other stored
\* value is still found.
C9_EraseStep ==
    (/\ ret'.op \in {"erase", "erase_value"}
     /\ ret'.v \in Val
     /\ elems[ret'.t][ret'.v] = 1)
    => LET t == ret'.t
           e == end(heap', root_'[t], "Inorder")
       IN  /\ ret'.status = "ok"
           /\ find(heap', root_'[t], ret'.v, "Inorder") = e
           /\ ~contains(heap', root_'[t], ret'.v)
           /\ \A w \in Val \ {ret'.v} :
                 elems[t][w] > 0 =>
                    /\ find(heap', root_'[t], w, "Inorder") # e
                    /\ Deref(heap', find(heap', root_'[t], w, "Inorder")) = w
                    /\ contains(heap', root_'[t], w)

C9_EraseOnlyOccurrence == [][C9_EraseStep]_vars

\* erase(it) has removed the only occurrence of its value from a tree that
\* keeps two other, equal elements.
C9_Witness ==
    /\ ret.op = "erase" /\ ret.v \in Val /\ ret.status = "ok"
    /\ elems[ret.t][ret.v] = 0
    /\ size_[ret.t] = 2
    /\ \E w \in Val : elems[ret.t][w] = 2

\* --------------------------------------------------------------------- C10
\* C10: erase(value) removes every element equal to value and no other,
\* returns the number of elements removed and decreases size() by it; when
\* value is absent it returns 0 and leaves the tree unchanged.
C10_EraseValueStep ==
    (ret'.op = "erase_value") =>
        LET t == ret'.t
            v == ret'.v
            before == DataNodes(heap, root_[t])
            gone == {n \in before : heap.data_[n] = v}
        IN  /\ ret'.status = "ok"
            /\ DataNodes(heap', root_'[t]) = before \ gone
            /\ heap'.live = heap.live \ gone
            /\ \A n \in before \ gone : heap'.data_[n] = heap.data_[n]
            /\ Values(heap', Ref(heap', root_'[t], "Inorder"))
                 = SelectSeq(Values(heap, Ref(heap, root_[t], "Inorder")),
                             LAMBDA x : x # v)
            /\ ret'.n = Cardinality(gone)
            /\ size_'[t] = size_[t] - ret'.n
            /\ gone = {} => (ret'.n = 0 /\ heap' = heap /\ size_' = size_)

C10_EraseValue == [][C10_EraseValueStep]_vars

\* erase(v) has removed two equal elements and left another.
C10_Witness ==
    /\ ret.op = "erase_value" /\ ret.status = "ok" /\ ret.n = 2
    /\ size_[ret.t] = 1

\* --------------------------------------------------------------------- C11
\* the nodes a step released
Released == heap.live \ heap'.live

\* C11 (first part): erase(first, last) returns normally and removes exactly
\* the elements a forward walk from first up to, excluding, last visits.
C11_RangeExactStep ==
    (ret'.op = "erase_range") =>
        /\ ret'.status = "ok"
        /\ Released = {ret'.seq[i] : i \in 1..Len(ret'.seq)}

\* C11 (second part): erase(begin(O), end(O)) leaves the tree empty with
\* size() = 0.
C11_RangeAllStep ==
    (/\ ret'.op = "erase_range"
     /\ ret'.it = begin(heap, root_[ret'.t], ret'.order)
     /\ ret'.it2 = end(heap, root_[ret'.t], ret'.order))
    => /\ ret'.status = "ok"
       /\ empty(heap', root_'[ret'.t])
       /\ size_'[ret'.t] = 0

\* C11: for every order O, erase(first, last) removes exactly the elements
\* the forward walk from first up to last visits, and
\* erase(begin(O), end(O)) empties the tree.
C11_EraseRange == [][C11_RangeExactStep /\ C11_RangeAllStep]_vars

\* --------------------------------------------------------------------- C12
\* the position of node n in the sequence s, 0 when absent
IndexOf(s, n) ==
    IF \E i \in 1..Len(s) : s[i] = n
    THEN CHOOSE i \in 1..Len(s) : s[i] = n
    ELSE 0

\* the sequence s without its i-th entry
Without(s, i) == [k \in 1..(Len(s) - 1) |-> IF k < i THEN s[k] ELSE s[k + 1]]

\* C12: erase(cursor) with an in-order cursor on a data node returns the
\* cursor to the element that followed the erased one in in-order, end() if
\* it was the last, and that cursor is valid after the erase: the in-order
\* sequence is the former one without the erased node.  erase(end()) returns
\* end() and changes nothing.
C12_EraseCursorStep ==
    (ret'.op = "erase" /\ ret'.order = "Inorder") =>
        LET t == ret'.t
            r == root_[t]
            before == Ref(heap, r, "Inorder")
            i == IndexOf(before, ret'.it2)
        IN  /\ ret'.status = "ok"
            /\ root_'[t] = r
            /\ IF ret'.it2 = end(heap, r, "Inorder")
               THEN /\ ret'.it = end(heap, r, "Inorder")
                    /\ heap' = heap /\ size_' = size_
               ELSE /\ i > 0
                    /\ ret'.it = (IF i < Len(before) THEN before[i + 1] ELSE r)
                    /\ Valid(heap', ret'.it)
                    /\ Ref(heap', r, "Inorder") = Without(before, i)

C12_EraseCursor == [][C12_EraseCursorStep]_vars

\* erase(it) has removed one of three elements and returned the cursor to
\* the element after it, now the topmost data node with a left child.
C12_Witness ==
    /\ ret.op = "erase" /\ ret.order = "Inorder" /\ ret.status = "ok"
    /\ ret.it2 # Root(ret.t) /\ ret.it # Root(ret.t)
    /\ size_[ret.t] = 2
    /\ heap.left_[Root(ret.t)] = ret.it
    /\ heap.left_[ret.it] # Nil

\* erase(end()) has returned end() on a tree that holds elements.
C12_WitnessEnd ==
    /\ ret.op = "erase" /\ ret.order = "Inorder" /\ ret.status = "ok"
    /\ ret.it2 = Root(ret.t) /\ ret.it = Root(ret.t)
    /\ size_[ret.t] > 0

\* --------------------------------------------------------------------- C13
\* C13: for every order O and every tree, the empty one included,
\* find(v, O), lower_bound(v, O) and upper_bound(v, O) for a value v that is
\* not stored return end(O) without faulting.
C13_AbsentIsEnd ==
    (/\ ret.op \in {"find", "lower_bound", "upper_bound"}
     /\ elems[ret.t][ret.v] = 0)
    => /\ ret.status = "ok"
       /\ ret.it = end(heap, Root(ret.t), ret.order)

\* --------------------------------------------------------------------- C14
\* the values the tree whose sentinel is r stores, in in-order
StoredValues(h, r) == Values(h, Ref(h, r, "Inorder"))

\* C14: count(v) is the number of stored elements equal to v, duplicates
\* included, and contains(v) is true exactly when count(v) > 0, in every
\* state that insertions and erasures reach.
C14_CountContains ==
    /\ (ret.op = "count") =>
          /\ ret.status = "ok"
          /\ ret.n = Occurrences(StoredValues(heap, Root(ret.t)), ret.v)
          /\ ret.n = elems[ret.t][ret.v]
          /\ contains(heap, Root(ret.t), ret.v) <=> ret.n > 0
    /\ (ret.op = "contains") =>
          /\ ret.status = "ok"
          /\ ret.n = 1 <=> count(heap, Root(ret.t), ret.v) > 0

\* count(v) has counted two equal elements in a tree of three.
C14_Witness ==
    /\ ret.op = "count" /\ ret.n = 2
    /\ size_[ret.t] = 3

\* --------------------------------------------------------------------- C15
\* the nodes a forward in-order walk of the tree whose sentinel is r visits
\* from cursor lo up to, excluding, cursor hi; <<>> when lo = hi
Between(h, r, lo, hi) ==
    LET s == Ref(h, r, "Inorder") \o <<r>>
        i == IndexOf(s, lo)
        j == IndexOf(s, hi)
    IN  [k \in 1..(j - i) |-> s[i + k - 1]]

\* C15: under in-order, equal_range(v) returns (lower, upper) such that the
\* elements from lower up to, excluding, upper are exactly the stored
\* elements equal to v; when v is present lower dereferences to v and upper
\* is the first element greater than v, or end() when v is the maximum.
C15_EqualRange ==
    (ret.op = "equal_range" /\ ret.order = "Inorder") =>
        LET r == Root(ret.t)
            s == Ref(heap, r, "Inorder") \o <<r>>
            lo == IndexOf(s, ret.it)
            hi == IndexOf(s, ret.it2)
            greater == {k \in 1..(Len(s) - 1) : heap.data_[s[k]] > ret.v}
        IN  /\ ret.status = "ok"
            /\ lo > 0 /\ hi > 0 /\ lo <= hi
            /\ \A k \in 1..(Len(s) - 1) :
                  (lo <= k /\ k < hi) <=> heap.data_[s[k]] = ret.v
            /\ elems[ret.t][ret.v] > 0 =>
                  /\ ret.it # r /\ Deref(heap, ret.it) = ret.v
                  /\ IF greater = {} THEN ret.it2 = r
                     ELSE /\ ret.it2 # r
                          /\ \A k \in greater : hi <= k

\* equal_range(v) has returned the range of two equal elements that are
\* followed by a greater one.
C15_Witness ==
    /\ ret.op = "equal_range" /\ ret.order = "Inorder" /\ ret.status = "ok"
    /\ elems[ret.t][ret.v] = 2
    /\ ret.it2 # Root(ret.t)
    /\ Len(Between(heap, Root(ret.t), ret.it, ret.it2)) = 2

\* --------------------------------------------------------------------- C19
\* C19: for every order O, on a non-empty tree one backward step from
\* begin(O) does not yield end(O); begin(O) stepped backward equals end(O)
\* only when the tree is empty.
C19_BeginBackNotEnd ==
    (ret.op = "begin_back" /\ ~empty(heap, Root(ret.t)))
    => /\ ret.status = "ok"
       /\ ret.it2 # end(heap, Root(ret.t), ret.order)

\* --------------------------------------------------------------------- C20
\* the tree whose sentinel is r keeps the search-tree order
Ordered(h, r) ==
    \A n \in DataNodes(h, r) :
        /\ \A m \in Subtree(h, h.left_[n]) : h.data_[m] <= h.data_[n]
        /\ \A m \in Subtree(h, h.right_[n]) : h.data_[m] >= h.data_[n]

\* C20: in every reachable state, for every node n every value in n's left
\* subtree is less than or equal to n's value and every value in n's right
\* subtree is greater than or equal to it; insert and every case of
\* DeleteNode preserve this.
C20_SearchTreeOrder == \A t \in Active : Ordered(heap, Root(t))

\* erase(it) has removed a node with two children: its in-order successor,
\* which held an equal value, is now the topmost data node and the erased
\* node's left subtree hangs under it.
C20_Witness ==
    /\ ret.op = "erase" /\ ret.status = "ok"
    /\ ret.it # Root(ret.t)
    /\ heap.left_[Root(ret.t)] = ret.it
    /\ heap.left_[ret.it] # Nil
    /\ ret.v = heap.data_[ret.it]

\* --------------------------------------------------------------------- C16
\* the tree that is not t
Other(t) == CHOOSE u \in BSTs : u # t

\* C16: two trees built by insertions and erasures compare equal exactly
\* when they hold the same multiset of values, that is the same size and
\* element-wise equal in-order sequences, whatever the insertion order and
\* the shape of the trees.
C16_EqualIffSameMultiset ==
    (ret.op = "equal") =>
        LET t == ret.t
            u == Other(ret.t)
            mine == StoredValues(heap, Root(t))
            theirs == StoredValues(heap, Root(u))
        IN  /\ ret.status = "ok"
            /\ ret.n = 1 <=> elems[t] = elems[u]
            /\ ret.n = 1 <=> /\ size_[t] = size_[u]
                             /\ Len(mine) = Len(theirs)
                             /\ \A i \in 1..Len(mine) : mine[i] = theirs[i]

\* Two trees of two elements compare equal although one grew to the left
\* and the other to the right.
C16_Witness ==
    /\ ret.op = "equal" /\ ret.n = 1
    /\ size_[ret.t] = 2
    /\ heap.left_[heap.left_[Root(ret.t)]] # Nil
    /\ heap.right_[heap.left_[Root(Other(ret.t))]] # Nil

\* --------------------------------------------------------------------- C17
\* C17: after a.swap(b), for trees of any sizes, a holds exactly b's former
\* elements and a.size() is b's former size, and b holds a's former
\* elements and b.size() is a's former size.
C17_SwapStep ==
    (ret'.op = "swap") =>
        \A t \in BSTs :
            /\ StoredValues(heap', root_'[t])
                  = StoredValues(heap, root_[Other(t)])
            /\ size_'[t] = size_[Other(t)]

C17_Swap == [][C17_SwapStep]_vars

\* --------------------------------------------------------------------- C18
\* the sorted sequence that merges the non-decreasing sequences x and y
RECURSIVE SortedUnion(_, _)
SortedUnion(x, y) ==
    IF x = <<>> THEN y
    ELSE IF y = <<>> THEN x
    ELSE IF Head(x) <= Head(y) THEN <<Head(x)>> \o SortedUnion(Tail(x), y)
    ELSE <<Head(y)>> \o SortedUnion(x, Tail(y))

\* C18: after a.merge(b), b another tree, a's in-order sequence is the
\* sorted multiset union of the former contents of both trees, duplicates
\* kept, a.size() is the sum of the two former sizes, and b is unchanged.
C18_MergeStep ==
    (ret'.op = "merge") =>
        LET t == ret'.t
            u == Other(ret'.t)
        IN  /\ StoredValues(heap', root_'[t])
                  = SortedUnion(StoredValues(heap, root_[t]),
                                StoredValues(heap, root_[u]))
            /\ size_'[t] = size_[t] + size_[u]
            /\ root_'[u] = root_[u] /\ size_'[u] = size_[u]
            /\ Ref(heap', root_'[u], "Preorder") = Ref(heap, root_[u], "Preorder")
            /\ \A n \in DataNodes(heap, root_[u]) :
                  heap'.data_[n] = heap.data_[n]

C18_Merge == [][C18_MergeStep]_vars

\* merge has put the element of the other tree, a duplicate of one already
\* there, into a tree that held two, and the other tree still holds it.
C18_Witness ==
    /\ ret.op = "merge"
    /\ size_[ret.t] = 3 /\ size_[Other(ret.t)] = 1
    /\ \E v \in Val : elems[ret.t][v] = 2 /\ elems[Other(ret.t)][v] = 1
    /\ Len(StoredValues(heap, Root(ret.t))) = 3
    /\ Len(StoredValues(heap, Root(Other(ret.t)))) = 1

\* --------------------------------------------------------------------- C21
\* the nodes of h whose left_ or right_ holds node n
Holders(h, n) == {m \in h.live : h.left_[m] = n \/ h.right_[m] = n}

\* the link structure of the tree whose sentinel is r is well formed
WellFormed(h, r) ==
    /\ h.parent_[r] = Nil
    /\ h.right_[r] = Nil
    /\ h.left_[r] # Nil => (h.left_[r] \in h.live /\ h.left_[r] # r)
    /\ \A n \in DataNodes(h, r) :
          /\ n \in h.live
          /\ Holders(h, n) = {h.parent_[n]}
          /\ ~(h.left_[h.parent_[n]] = n /\ h.right_[h.parent_[n]] = n)
    /\ \A n \in DataNodes(h, r) \cup {r} :
          /\ h.left_[n] # Nil => h.parent_[h.left_[n]] = n
          /\ h.right_[n] # Nil => h.parent_[h.right_[n]] = n

\* C21: in every reachable state the sentinel's parent and right child are
\* none, its left child is the data root or none, every data node is the
\* left or right child of exactly the node its parent_ names, and every
\* child's parent_ names the node that holds it.
C21_WellFormedLinks == \A t \in Active : WellFormed(heap, Root(t))

\* erase(value) has removed two equal elements and left a third in the tree.
C21_Witness ==
    /\ ret.op = "erase_value" /\ ret.status = "ok"
    /\ ret.n = 2
    /\ size_[ret.t] = 1
    /\ heap.left_[Root(ret.t)] # Nil

\* --------------------------------------------------------------------- C22
\* C22: erase(cursor) on a data node removes exactly that node, whichever of
\* the four structural cases applies: every other node stays in the tree
\* with its value, so cursors to other nodes still reference the same
\* values, and the in-order sequence is the former one without that element.
C22_EraseFrameStep ==
    (ret'.op = "erase" /\ ret'.it2 # root_[ret'.t]) =>
        LET t == ret'.t
            r == root_[t]
            node == ret'.it2
            before == Ref(heap, r, "Inorder")
        IN  /\ ret'.status = "ok"
            /\ root_'[t] = r
            /\ Released = {node}
            /\ DataNodes(heap', r) = DataNodes(heap, r) \ {node}
            /\ \A n \in DataNodes(heap, r) \ {node} :
                  Valid(heap', n) /\ heap'.data_[n] = heap.data_[n]
            /\ Ref(heap', r, "Inorder") = Without(before, IndexOf(before, node))

C22_EraseFrame == [][C22_EraseFrameStep]_vars

\* erase(it) with a pre-order cursor has removed the topmost of three
\* elements, a node with two children: the returned cursor is its former
\* left child, now hanging under its former right child, of equal value.
C22_Witness ==
    /\ ret.op = "erase" /\ ret.order = "Preorder" /\ ret.status = "ok"
    /\ size_[ret.t] = 2
    /\ ret.it2 # Root(ret.t)
    /\ LET top == heap.left_[Root(ret.t)] IN
       /\ top # Nil /\ heap.left_[top] # Nil
       /\ ret.it = heap.left_[top]
       /\ ret.v = heap.data_[top]

\* --------------------------------------------------------------------- C23
\* C23: for every order O and every data position p whose forward step lands
\* on a data position q, one backward step from q returns to p.
C23_ForthBack ==
    (/\ ret.op = "forth_back"
     /\ ret.it # Root(ret.t)
     /\ ret.it2 \in DataNodes(heap, Root(ret.t)))
    => /\ ret.status = "ok"
       /\ ret.n = ret.it

\* --------------------------------------------------------------------- C24
\* C24: for every order O and every non-empty tree, a forward step from
\* end(O) and a backward step from begin(O) each land on the sentinel
\* without dereferencing a null pointer.
C24_BoundarySteps ==
    (/\ ret.op \in {"end_forth", "begin_back"}
     /\ ~empty(heap, Root(ret.t)))
    => /\ ret.status = "ok"
       /\ ret.it2 = Root(ret.t)

\* --------------------------------------------------------------------- C25
\* C25: for a reverse cursor of any order on a data element that is neither
\* the first nor the last element of that order's traversal, one forward
\* step followed by one backward step of the reverse cursor returns to the
\* same position.
C25_ReverseForthBack ==
    (ret.op = "rev_forth_back") =>
        LET s == Ref(heap, Root(ret.t), ret.order)
            i == IndexOf(s, ret.it)
        IN  (1 < i /\ i < Len(s)) =>
               /\ ret.status = "ok"
               /\ ret.n = ret.it

\* --------------------------------------------------------------------- C26
\* C26: for every order O and every reachable tree a full walk ends in both
\* directions: repeated forward steps from begin(O) reach end(O), and
\* repeated backward steps from end(O) return to the sentinel, each after
\* finitely many steps.
C26_WalksEnd == Walking ~> WalkDone

\* --------------------------------------------------------------------- C27
\* node n comes before node m in the in-order sequence s
Before(s, n, m) == IndexOf(s, n) < IndexOf(s, m)

\* C27: elements that compare equal appear in the in-order traversal in the
\* order in which they were inserted.  Step by step: a newly inserted
\* element comes after every equal element already stored, and no step
\* changes the in-order order of two equal elements that stay in the tree.
C27_StableStep ==
    heap' # heap => \A t \in Active :
        LET r == root_[t]
            old == Ref(heap, r, "Inorder")
            new == Ref(heap', root_'[t], "Inorder")
            stay == DataNodes(heap, r) \cap DataNodes(heap', root_'[t])
        IN  /\ \A n, m \in stay :
                  (heap.data_[n] = heap.data_[m] /\ Before(old, n, m))
                  => (heap'.data_[n] = heap'.data_[m] /\ Before(new, n, m))
            /\ (ret'.op = "insert" /\ ret'.t = t) =>
                  /\ ret'.it \in DataNodes(heap', root_'[t]) \ DataNodes(heap, r)
                  /\ \A m \in stay :
                        heap'.data_[m] = ret'.v => Before(new, m, ret'.it)

C27_StableDuplicates == [][C27_StableStep]_vars

\* insert(v) has stored a third element equal to v below the two older
\* ones, as the last of the three in in-order.
C27_Witness ==
    /\ ret.op = "insert" /\ ret.status = "ok"
    /\ elems[ret.t][ret.v] = 3
    /\ LET s == Ref(heap, Root(ret.t), "Inorder") IN
       /\ Len(s) = 3
       /\ s[3] = ret.it

\* --------------------------------------------------------------------- C28
\* C28: rfind(v) under in-order returns a cursor to the last occurrence of v
\* whenever v is stored, also when v is the largest value in the tree, and
\* returns end() only when v is absent.
C28_RFindLast ==
    (ret.op = "rfind" /\ ret.order = "Inorder") =>
        LET r == Root(ret.t)
            s == Ref(heap, r, "Inorder")
            at == {i \in 1..Len(s) : heap.data_[s[i]] = ret.v}
        IN  /\ ret.status = "ok"
            /\ IF at = {} THEN ret.it = end(heap, r, "Inorder")
               ELSE /\ ret.it # end(heap, r, "Inorder")
                    /\ IndexOf(s, ret.it) \in at
                    /\ \A i \in at : i <= IndexOf(s, ret.it)
\* --------------------------------------------------------------------- C29
\* C29: every node, the sentinel included, is owned by exactly one tree at
\* all times: two trees never reference the same sentinel or data nodes (also
\* after a = move(b)), so every tree that exists keeps a live sentinel and
\* exactly the elements it was given, whatever is done to the other tree.
C29_SingleOwner ==
    /\ \A t \in BSTs : \A u \in BSTs \ {t} :
          (Exists(t) /\ Exists(u)) =>
              /\ root_[t] # root_[u]
              /\ DataNodes(heap, root_[t]) \cap DataNodes(heap, root_[u]) = {}
    /\ \A t \in BSTs :
          Exists(t) =>
              /\ ~Dangling(t)
              /\ \A v \in Val : Holds(t, v) = elems[t][v]

====
